---- MODULE Spec2Model ----
(***************************************************************************)
(* State-machine model of the two example React components (OrderList,    *)
(* UserProfile) and of the shared keyboard-shortcut manager.              *)
(*                                                                         *)
(* A component is a record of its useState cells, a lifecycle phase, a    *)
(* "render pending" flag and the snapshot its last committed render       *)
(* closed over.  The network is the set of requests in flight; the server *)
(* answers them in any order, with any payload, or the fetch rejects.     *)
(* The page renders one root (app); the roots share no state.             *)
(*                                                                         *)
(* React: the setters called in one continuation are applied together and *)
(* followed by one render; a setter given the value the cell holds        *)
(* schedules nothing; a setter of an unmounted component is a no-op.      *)
(* Payloads are well formed as far as the continuations dereference them: *)
(* GET /orders and the search answer an array of orders, GET /users/{id}  *)
(* an object, whose items field may be absent.                            *)
(***************************************************************************)
EXTENDS Integers, Sequences, FiniteSets, TLC

VARIABLES
    app,          \* which root the page renders
    net,          \* requests in flight (fetch promises not yet settled)
    seq,          \* number of requests issued so far
    last,         \* the step just taken: what ran, what it called and issued
    orderList,    \* OrderList: the useState cells
    olPhase,      \* OrderList: "init" | "mounted" | "unmounted"
    olDirty,      \* OrderList: a state update is waiting for its re-render
    olRendered,   \* OrderList: the state the last committed render showed
    olInterval,   \* OrderList: number of live setInterval timers
    olArrived,    \* OrderList: the last two order-list responses that came in
    userProfile,  \* UserProfile: the useState cells
    upPhase,      \* UserProfile: "init" | "mounted" | "unmounted" | "crashed"
    upDirty,      \* UserProfile: a state update is waiting for its re-render
    upRendered,   \* UserProfile: the state the last committed render closed over
    upProps,      \* UserProfile: the current props.id
    upMountId,    \* UserProfile: props.id at mount
    upAdded,      \* UserProfile: number of items added by the add button
    upDone,       \* UserProfile: the DELETEs that resolved, and how many requests had gone out by then
    keyCallbacks,     \* shortcuts: Map<string, Set<() => void>>
    listenerAttached, \* shortcuts: the module-level flag
    windowListeners,  \* shortcuts: keydown handlers on window, by the hook that made them
    hooks,            \* shortcuts: the useKeyboardShortcut instances
    call              \* functions: the call just made, its argument and its result

olVars == <<orderList, olPhase, olDirty, olRendered, olInterval, olArrived>>
upVars == <<userProfile, upPhase, upDirty, upRendered, upProps, upMountId, upAdded,
           upDone>>
scVars == <<keyCallbacks, listenerAttached, windowListeners, hooks>>
fnVars == <<call>>
vars == <<app, net, seq, last, olVars, upVars, scVars, fnVars>>

(***************************************************************************)
(* Bounds.                                                                 *)
(***************************************************************************)
MaxRequests == 3
MaxAdded == 1
NumHooks == 2
MaxInFlight == 2
MaxDeleteRequests == 5

(***************************************************************************)
(* JavaScript values.                                                      *)
(***************************************************************************)
Null == [type |-> "null"]
Undefined == [type |-> "undefined"]

Queries == {"a", "b"}

\* HTML text, as the sequence of its tags and text runs.
PlainHtml == <<"<b>", "note", "</b>">>
ScriptHtml == <<"<script>", "steal()", "</script>", "note">>

Order1 == [id |-> "o1", price |-> 2, quantity |-> 1, memo |-> PlainHtml]
Order2 == [id |-> "o2", price |-> 3, quantity |-> 2, memo |-> ScriptHtml]

\* What GET /orders and GET /orders/search may answer.
OrderPayloads == {<<Order1>>, <<Order1, Order2>>}

(***************************************************************************)
(* Requests and the record of the last step.                               *)
(***************************************************************************)
Req(n, method, path, origin, cap) ==
    [seq |-> n, method |-> method, path |-> path, origin |-> origin, cap |-> cap]

NoReq == Req(0, "", <<>>, "", Null)

Event(type, req, payload, calls, issued, mounted) ==
    [type |-> type, req |-> req, payload |-> payload, calls |-> calls,
     issued |-> issued, mounted |-> mounted]

\* OrderList is also followed in runs of unbounded length ("OrderListLongRun"):
\* there a request is named by a free slot instead of by its number in the
\* run, and the bound is on the requests in flight, so that the states stay
\* finitely many.
\* It is followed once more with more requests and fewer events
\* ("OrderListDelete"), for what becomes of an order after its deletion.
OrderListApps == {"OrderList", "OrderListLongRun", "OrderListDelete"}

LongRun == app = "OrderListLongRun"

FreeSlot ==
    LET used == {r.seq : r \in net}
    IN  CHOOSE n \in 1..MaxInFlight : n \notin used /\ \A k \in 1..(n - 1) : k \in used

RequestBound == IF app = "OrderListDelete" THEN MaxDeleteRequests ELSE MaxRequests

CanIssue == IF LongRun THEN Cardinality(net) < MaxInFlight ELSE seq < RequestBound

NextId == IF LongRun THEN FreeSlot ELSE seq + 1

Counted(k) == IF LongRun THEN seq ELSE seq + k

\* Variant: script elements are stripped before the markup is injected.
InjectSanitized(html) ==
    SelectSeq(html, LAMBDA t : t \notin {"<script>", "steal()", "</script>"})

\* dangerouslySetInnerHTML={{ __html: html }}: the element's innerHTML.
InjectHTML(html) == html

\* fetch(url, {method}): the request that goes on the wire.
Fetch(method, path, origin, cap) == Req(NextId, method, path, origin, cap)

(***************************************************************************)
(* React.                                                                  *)
(***************************************************************************)
\* A state setter called for an unmounted component is a no-op.
SetState(mounted, old, new) == IF mounted THEN new ELSE old

\* Variant: the continuation is dropped once the component has unmounted.
ContinuesWhileMounted(mounted) == mounted

\* Neither component keeps a cancelled flag or an AbortController: the
\* continuation of a settled fetch runs whether or not the component is mounted.
Continues(mounted) == TRUE

(***************************************************************************)
(* OrderList.                                                              *)
(***************************************************************************)
OrderListInit ==
    [orders |-> <<>>, total |-> 0, loading |-> FALSE, error |-> Null,
     selectedId |-> Null, trigger |-> 0]

\* Variant: the load effect with an empty dependency list.
LoadEffectOnMountOnly(first) == first

\* useEffect(() => {...}) with no dependency list: runs after every commit.
LoadEffectDue(first) == TRUE

\* useEffect(() => {...}, []): runs after the first commit only.
PollEffectDue(first) == first

\* Variant: the polling effect returns () => clearInterval(interval).
PollCleared(n) == 0

\* The polling effect returns no cleanup: unmounting leaves the timers alone.
PollAfterUnmount(n) == n

RECURSIVE SumFrom(_, _)
SumFrom(data, i) ==
    IF i > Len(data) THEN 0
    ELSE data[i].price * data[i].quantity + SumFrom(data, i + 1)

\* let t = 0; for (i...) t = t + data[i].price * data[i].quantity
Total(data) == SumFrom(data, 1)

\* .then((data) => { setOrders(data); ...; setTotal(t); setLoading(false) })
LoadThen(s, data) ==
    [s EXCEPT !.orders = data, !.total = Total(data), !.loading = FALSE]

LoadThenCalls == <<"setOrders", "setTotal", "setLoading">>

\* .then((d) => setOrders(d)) of the poll and of the search
OrdersThen(s, d) == [s EXCEPT !.orders = d]

OrdersThenCalls == <<"setOrders">>

\* Variant: a .catch that records the failure.
OLOnRejectedCatch(s) == [s EXCEPT !.error = [type |-> "error"], !.loading = FALSE]

\* No .catch anywhere: a rejected fetch runs no continuation.
OLOnRejected(s) == s

\* The commit of a render and the effects it schedules.
OLCommit(first) ==
    LET s == orderList
        r == Fetch("GET", <<"orders">>, "load", Null)
        issued == IF LoadEffectDue(first) THEN {r} ELSE {}
        s2 == IF LoadEffectDue(first) THEN [s EXCEPT !.loading = TRUE] ELSE s
    IN  /\ CanIssue
        /\ orderList' = s2
        /\ olRendered' = s
        /\ olDirty' = (s2 # s)
        /\ olInterval' = IF PollEffectDue(first) THEN olInterval + 1 ELSE olInterval
        /\ net' = net \cup issued
        /\ seq' = Counted(Cardinality(issued))
        /\ last' = Event(IF first THEN "mount" ELSE "render", NoReq, Null,
                         IF LoadEffectDue(first) THEN <<"setLoading">> ELSE <<>>,
                         issued, TRUE)

\* <div dangerouslySetInnerHTML={{ __html: order.memo }} /> of each order shown
OLMemoDom(s) == [i \in 1..Len(s.orders) |-> InjectHTML(s.orders[i].memo)]

OLMount ==
    /\ app \in OrderListApps
    /\ olPhase = "init"
    /\ olPhase' = "mounted"
    /\ OLCommit(TRUE)
    /\ UNCHANGED <<app, olArrived, upVars, scVars, fnVars>>

OLRender ==
    /\ app \in OrderListApps
    /\ olPhase = "mounted"
    /\ olDirty
    /\ OLCommit(FALSE)
    /\ UNCHANGED <<app, olPhase, olArrived, upVars, scVars, fnVars>>

OLUnmount ==
    /\ app \in OrderListApps
    /\ olPhase = "mounted"
    /\ olPhase' = "unmounted"
    /\ olDirty' = FALSE
    /\ olInterval' = PollAfterUnmount(olInterval)
    /\ last' = Event("unmount", NoReq, Null, <<>>, {}, TRUE)
    /\ UNCHANGED <<app, net, seq, orderList, olRendered, olArrived, upVars, scVars, fnVars>>

\* setInterval(() => { fetch(".../orders")... }, 1000)
OLTick ==
    /\ app \in OrderListApps
    /\ olInterval > 0
    /\ CanIssue
    /\ LET r == Fetch("GET", <<"orders">>, "poll", Null)
       IN  /\ net' = net \cup {r}
           /\ seq' = Counted(1)
           /\ last' = Event("tick", NoReq, Null, <<>>, {r}, olPhase = "mounted")
    /\ UNCHANGED <<app, olVars, upVars, scVars, fnVars>>

\* onChange of the search box
OLSearch(q) ==
    /\ app \in OrderListApps
    /\ olPhase = "mounted"
    /\ CanIssue
    /\ LET r == Fetch("GET", <<"orders", "search?q=", q>>, "search", Null)
       IN  /\ net' = net \cup {r}
           /\ seq' = Counted(1)
           /\ last' = Event("search", NoReq, Null, <<>>, {r}, TRUE)
    /\ UNCHANGED <<app, olVars, upVars, scVars, fnVars>>

\* Variant: the delete goes out as a POST to another path.
DeleteOrderByPost(id) == Fetch("POST", <<"orders", id, "delete">>, "delete", Null)

\* fetch(`http://api.example.com/orders/${id}`, { method: "DELETE" })
DeleteOrder(id) == Fetch("DELETE", <<"orders", id>>, "delete", Null)

\* onClick of a rendered order
OLHandleDelete(i) ==
    /\ app \in OrderListApps
    /\ olPhase = "mounted"
    /\ CanIssue
    /\ i \in 1..Len(olRendered.orders)
    /\ LET id == olRendered.orders[i].id
           r == DeleteOrder(id)
       IN  /\ net' = net \cup {r}
           /\ seq' = Counted(1)
           /\ orderList' = [orderList EXCEPT !.trigger = @ + 1]
           /\ olDirty' = TRUE
           /\ last' = Event("handleDelete", NoReq, Null, <<"setTrigger">>, {r}, TRUE)
    /\ UNCHANGED <<app, olPhase, olRendered, olInterval, olArrived, upVars, scVars, fnVars>>

\* The continuation attached to request r, run on payload d.
OLThen(r, s, d) ==
    CASE r.origin = "load" -> LoadThen(s, d)
      [] r.origin \in {"poll", "search"} -> OrdersThen(s, d)
      [] OTHER -> s

OLThenCalls(r) ==
    CASE r.origin = "load" -> LoadThenCalls
      [] r.origin \in {"poll", "search"} -> OrdersThenCalls
      [] OTHER -> <<>>

\* Variant: a response older than the one applied last is ignored.
AcceptsNewest(r, arrived) == arrived = <<>> \/ r.seq > arrived[1].req.seq

\* The order-list responses are applied as they come, whatever was applied before.
Accepts(r, arrived) == TRUE

\* A fetch resolves and res.json() yields d.
OLRespond(r, d) ==
    /\ app \in OrderListApps
    /\ r \in net
    /\ LET m == olPhase = "mounted"
           list == r.origin \in {"load", "poll", "search"}
           run == Continues(m) /\ (list => Accepts(r, olArrived))
           set == m /\ run /\ list
       IN  /\ orderList' = IF run THEN SetState(m, orderList, OLThen(r, orderList, d))
                                  ELSE orderList
           \* res.json() builds a new array: setOrders always changes the state
           /\ olDirty' = (olDirty \/ set)
           /\ olArrived' = IF m /\ list
                            THEN <<[req |-> r, payload |-> d]>> \o
                                 (IF olArrived = <<>> THEN <<>> ELSE <<olArrived[1]>>)
                            ELSE olArrived
           /\ last' = Event("resp", r, d, IF run THEN OLThenCalls(r) ELSE <<>>, {}, m)
    /\ net' = net \ {r}
    /\ UNCHANGED <<app, seq, olPhase, olRendered, olInterval, upVars, scVars, fnVars>>

\* A fetch rejects (network failure).
OLReject(r) ==
    /\ app \in OrderListApps
    /\ r \in net
    /\ orderList' = SetState(olPhase = "mounted", orderList, OLOnRejected(orderList))
    /\ olDirty' = (olDirty \/ orderList' # orderList)
    /\ net' = net \ {r}
    /\ last' = Event("reject", r, Null, <<>>, {}, olPhase = "mounted")
    /\ UNCHANGED <<app, seq, olPhase, olRendered, olInterval, olArrived, upVars, scVars, fnVars>>

OLNext ==
    \/ OLMount
    \/ OLRender
    \/ OLUnmount
    \/ OLTick
    \/ \E q \in Queries : OLSearch(q)
    \/ \E i \in 1..2 : OLHandleDelete(i)
    \/ \E r \in net, d \in OrderPayloads : OLRespond(r, d)
    \/ \E r \in net : OLReject(r)

(***************************************************************************)
(* UserProfile.                                                            *)
(***************************************************************************)
\* An array is an object: two holders of the same ref see each other's push.
Arr(ref, elems) == [type |-> "array", ref |-> ref, elems |-> elems]

UserIds == {"u1", "u2"}

\* The bio the server holds for user u.
BioOf(u) == IF u = "u1" THEN PlainHtml ELSE ScriptHtml

Item1 == [id |-> "i1"]
Item2 == [id |-> "i2"]

\* The items field of a user payload: absent, or a list.
JsonItems == {Undefined, Arr(0, <<Item1, Item2>>)}

\* res.json() of GET /users/{u}: a new object, its array new too (ref n).
ParseUser(u, its, n) ==
    [type |-> "object", id |-> u, bio |-> BioOf(u),
     items |-> IF its.type = "array" THEN Arr(n, its.elems) ELSE its]

UserProfileInit ==
    [userData |-> Null, loading |-> FALSE, items |-> Arr(0, <<>>), error |-> "",
     count |-> 0]

Snapshot(s, id) ==
    [state |-> s, props |-> id,
     shown |-> IF s.items.type = "array" THEN s.items.elems ELSE <<>>]

\* Variant: the fetch effect with [props.id] as its dependency list.
UserEffectOnIdChange(first, idChanged) == first \/ idChanged

\* useEffect(() => {...}, []): runs after the first commit only.
UserEffectDue(first, idChanged) == first

\* if (loading) return ...; if (error) return ...; return <div>...</div>
UPView(s) ==
    IF s.loading THEN "loading"
    ELSE IF s.error # "" THEN "error"
    ELSE "profile"

\* {userData && (... items.length ... renderItems() ...)}
UPRenderThrows(s) ==
    UPView(s) = "profile" /\ s.userData # Null /\ s.items.type # "array"

\* <div dangerouslySetInnerHTML={{ __html: userData.bio }} />
UPBioDom(s) == InjectHTML(s.userData.bio)

\* Variant: setItems(data.items ?? []).
UserThenNormalized(s, data) ==
    [s EXCEPT !.userData = data, !.loading = FALSE,
              !.items = IF data.items.type = "array" THEN data.items ELSE Arr(0, <<>>)]

\* .then((data) => { setUserData(data); setLoading(false); setItems(data.items) })
UserThen(s, data) ==
    [s EXCEPT !.userData = data, !.loading = FALSE, !.items = data.items]

UserThenCalls == <<"setUserData", "setLoading", "setItems">>

RECURSIVE Filter(_, _)
Filter(elems, itemId) ==
    IF elems = <<>> THEN <<>>
    ELSE (IF Head(elems).id # itemId THEN <<Head(elems)>> ELSE <<>>)
         \o Filter(Tail(elems), itemId)

\* setItems(items.filter((item) => item.id !== itemId)), items of the closure
DeleteThen(s, cap, n) == [s EXCEPT !.items = Arr(n, Filter(cap.items.elems, cap.itemId))]

DeleteThenCalls == <<"setItems">>

\* Variant: a catch that records the failure.
UPOnRejectedCatch(s) == [s EXCEPT !.error = "failed", !.loading = FALSE]

\* No .catch and no try around the await: a rejected fetch runs nothing more.
UPOnRejected(s) == s

UPCommit(first, id) ==
    LET s == userProfile
        due == UserEffectDue(first, id # upRendered.props)
        r == Fetch("GET", <<"users", id>>, "user", Null)
        issued == IF due THEN {r} ELSE {}
        s2 == IF due THEN [s EXCEPT !.loading = TRUE] ELSE s
    IN  /\ seq + Cardinality(issued) <= MaxRequests
        /\ userProfile' = s2
        /\ upRendered' = Snapshot(s, id)
        /\ upDirty' = (s2 # s)
        /\ net' = net \cup issued
        /\ seq' = seq + Cardinality(issued)
        /\ last' = Event(IF first THEN "mount" ELSE "render", NoReq, Null,
                         IF due THEN <<"setLoading">> ELSE <<>>, issued, TRUE)

UPMount(id) ==
    /\ app = "UserProfile"
    /\ upPhase = "init"
    /\ upPhase' = "mounted"
    /\ upProps' = id
    /\ upMountId' = id
    /\ UPCommit(TRUE, id)
    /\ UNCHANGED <<app, upAdded, upDone, olVars, scVars, fnVars>>

UPRender ==
    /\ app = "UserProfile"
    /\ upPhase = "mounted"
    /\ upDirty
    /\ IF UPRenderThrows(userProfile)
       THEN \* an uncaught error while rendering takes the tree down
            /\ upPhase' = "crashed"
            /\ upDirty' = FALSE
            /\ last' = Event("crash", NoReq, Null, <<>>, {}, TRUE)
            /\ UNCHANGED <<net, seq, userProfile, upRendered>>
       ELSE /\ UPCommit(FALSE, upProps)
            /\ UNCHANGED upPhase
    /\ UNCHANGED <<app, upProps, upMountId, upAdded, upDone, olVars, scVars, fnVars>>

\* The parent renders UserProfile with another id.
UPChangeProps(id) ==
    /\ app = "UserProfile"
    /\ upPhase = "mounted"
    /\ id # upProps
    /\ upProps' = id
    /\ upDirty' = TRUE
    /\ last' = Event("props", NoReq, Null, <<>>, {}, TRUE)
    /\ UNCHANGED <<app, net, seq, userProfile, upPhase, upRendered, upMountId, upAdded, upDone, olVars, scVars, fnVars>>

UPUnmount ==
    /\ app = "UserProfile"
    /\ upPhase = "mounted"
    /\ upPhase' = "unmounted"
    /\ upDirty' = FALSE
    /\ last' = Event("unmount", NoReq, Null, <<>>, {}, TRUE)
    /\ UNCHANGED <<app, net, seq, userProfile, upRendered, upProps, upMountId, upAdded, upDone, olVars, scVars, fnVars>>

\* The item buttons and the add button are on screen.
UPListShown ==
    /\ upPhase = "mounted"
    /\ UPView(upRendered.state) = "profile"
    /\ upRendered.state.userData # Null

\* onClick of the delete button of the i-th rendered item
UPHandleDelete(i) ==
    /\ app = "UserProfile"
    /\ UPListShown
    /\ seq < MaxRequests
    /\ i \in 1..Len(upRendered.shown)
    /\ LET itemId == upRendered.shown[i].id
           \* the closure: itemId, items; created is the list as the render
           \* that made the handler showed it
           cap == [itemId |-> itemId, items |-> upRendered.state.items,
                   created |-> upRendered.shown]
           r == Fetch("DELETE", <<"items", itemId>>, "deleteItem", cap)
       IN  /\ net' = net \cup {r}
           /\ seq' = seq + 1
           /\ last' = Event("handleDelete", NoReq, Null, <<>>, {r}, TRUE)
    /\ UNCHANGED <<app, upVars, olVars, scVars, fnVars>>

\* Math.random(): an id no other item has.
NewItem(k) == [id |-> "n" \o ToString(k)]

\* items.push(x) on the array a, seen through the holder v
PushIn(v, a, x) ==
    IF v.type = "array" /\ v.ref = a.ref THEN Arr(v.ref, Append(v.elems, x)) ELSE v

PushState(s, a, x) ==
    [s EXCEPT !.items = PushIn(@, a, x),
              !.userData = IF @ = Null THEN @ ELSE [@ EXCEPT !.items = PushIn(@, a, x)]]

\* onClick of the add button: items.push(newItem); setItems(items)
UPAddItem ==
    /\ app = "UserProfile"
    /\ UPListShown
    /\ upAdded < MaxAdded
    /\ LET a == upRendered.state.items
           x == NewItem(upAdded + 1)
           same == userProfile.items.type = "array" /\ userProfile.items.ref = a.ref
       IN  /\ userProfile' = [PushState(userProfile, a, x) EXCEPT !.items = PushIn(a, a, x)]
           \* setItems bails out when it is given the object the state already holds
           /\ upDirty' = (upDirty \/ ~same)
           /\ upRendered' = [upRendered EXCEPT !.state = PushState(@, a, x)]
           /\ net' = {IF r.origin = "deleteItem"
                      THEN [r EXCEPT !.cap.items = PushIn(@, a, x)] ELSE r : r \in net}
           /\ upAdded' = upAdded + 1
           /\ last' = Event("addItem", NoReq, Null, <<"setItems">>, {}, TRUE)
    /\ UNCHANGED <<app, seq, upPhase, upProps, upMountId, upDone, olVars, scVars, fnVars>>

UPThen(r, s, d) ==
    CASE r.origin = "user" -> UserThen(s, d)
      [] r.origin = "deleteItem" -> DeleteThen(s, r.cap, r.seq)
      [] OTHER -> s

UPThenCalls(r) ==
    CASE r.origin = "user" -> UserThenCalls
      [] r.origin = "deleteItem" -> DeleteThenCalls
      [] OTHER -> <<>>

\* What the server may answer to DELETE /items/{id}: fetch resolves whatever
\* the status is.
DeleteAnswers == {[type |-> "response", ok |-> TRUE, status |-> 200],
                  [type |-> "response", ok |-> FALSE, status |-> 500]}

\* A fetch resolves with the answer b: for GET /users/{id}, res.json() yields
\* the user with the items b; for DELETE /items/{id}, b is the response.
UPRespond(r, b) ==
    /\ app = "UserProfile"
    /\ r \in net
    /\ r.origin = "deleteItem" <=> b \in DeleteAnswers
    /\ LET m == upPhase = "mounted"
           d == IF r.origin = "user" THEN ParseUser(r.path[2], b, r.seq) ELSE b
           run == Continues(m)
       IN  /\ userProfile' = IF run THEN SetState(m, userProfile, UPThen(r, userProfile, d))
                                    ELSE userProfile
           \* a new object, a new array: the state always changes
           /\ upDirty' = (upDirty \/ (m /\ run))
           /\ upDone' = IF r.origin = "deleteItem"
                         THEN upDone \cup {[req |-> r, at |-> seq]} ELSE upDone
           /\ last' = Event("resp", r, d, IF run THEN UPThenCalls(r) ELSE <<>>, {}, m)
    /\ net' = net \ {r}
    /\ UNCHANGED <<app, seq, upPhase, upRendered, upProps, upMountId, upAdded, olVars, scVars, fnVars>>

\* A fetch rejects (network failure).
UPReject(r) ==
    /\ app = "UserProfile"
    /\ r \in net
    /\ userProfile' = SetState(upPhase = "mounted", userProfile, UPOnRejected(userProfile))
    /\ upDirty' = (upDirty \/ userProfile' # userProfile)
    /\ net' = net \ {r}
    /\ last' = Event("reject", r, Null, <<>>, {}, upPhase = "mounted")
    /\ UNCHANGED <<app, seq, upPhase, upRendered, upProps, upMountId, upAdded, upDone, olVars, scVars, fnVars>>

UPNext ==
    \/ \E id \in UserIds : UPMount(id)
    \/ UPRender
    \/ \E id \in UserIds : UPChangeProps(id)
    \/ UPUnmount
    \/ \E i \in 1..2 : UPHandleDelete(i)
    \/ UPAddItem
    \/ \E r \in net, b \in JsonItems \cup DeleteAnswers : UPRespond(r, b)
    \/ \E r \in net : UPReject(r)

(***************************************************************************)
(* The shared keyboard-shortcut manager.                                   *)
(***************************************************************************)
Hooks == 1..NumHooks
Keys == {"p", "k"}
Callbacks == {"cb1", "cb2"}

\* No detach function: what attachGlobalListener returns when it does nothing.
NoDetach == 0

IdleHook == [phase |-> "idle", key |-> "", callback |-> "", detach |-> NoDetach]

\* The module-level state, as one value.
Manager == [keyCallbacks |-> keyCallbacks, listenerAttached |-> listenerAttached,
            windowListeners |-> windowListeners]

Listeners(w) == LET RECURSIVE Sum(_)
                    Sum(S) == IF S = {} THEN 0
                              ELSE LET h == CHOOSE x \in S : TRUE
                                   IN  w[h] + Sum(S \ {h})
                IN  Sum(DOMAIN w)

\* Variant: every hook adds its own handler (no listenerAttached check).
AttachAlways(m, h) ==
    [m |-> [m EXCEPT !.windowListeners[h] = @ + 1, !.listenerAttached = TRUE],
     detach |-> h]

\* attachGlobalListener(), called by hook h: the new module state and the
\* detach function returned (the handler it removes), if any.
AttachGlobalListener(m, h) ==
    IF m.listenerAttached
    THEN [m |-> m, detach |-> NoDetach]
    ELSE [m |-> [m EXCEPT !.windowListeners[h] = @ + 1, !.listenerAttached = TRUE],
          detach |-> h]

\* detach(): window.removeEventListener("keydown", handler); listenerAttached = false
Detach(m, d) ==
    [m EXCEPT !.windowListeners[d] = IF @ > 0 THEN @ - 1 ELSE @,
              !.listenerAttached = FALSE]

\* The body of the effect of useKeyboardShortcut(key, callback) in hook h.
Effect(m, h, key, callback) ==
    LET a == AttachGlobalListener(m, h)
        kc == a.m.keyCallbacks
        kc1 == IF key \in DOMAIN kc THEN kc
               ELSE [k \in DOMAIN kc \cup {key} |-> IF k = key THEN {} ELSE kc[k]]
        kc2 == [kc1 EXCEPT ![key] = @ \cup {callback}]
    IN  [m |-> [a.m EXCEPT !.keyCallbacks = kc2],
         hook |-> [phase |-> "active", key |-> key, callback |-> callback,
                   detach |-> a.detach]]

\* Variant: the cleanup detaches whenever it holds a detach function, even
\* while other callbacks are registered.
CleanupDetachEager(m, hk) ==
    LET kc == m.keyCallbacks
        kc1 == IF hk.key \in DOMAIN kc
               THEN LET set == kc[hk.key] \ {hk.callback}
                    IN  IF set = {}
                        THEN [k \in DOMAIN kc \ {hk.key} |-> kc[k]]
                        ELSE [kc EXCEPT ![hk.key] = set]
               ELSE kc
        m1 == [m EXCEPT !.keyCallbacks = kc1]
    IN  IF hk.detach # NoDetach THEN Detach(m1, hk.detach) ELSE m1

\* The cleanup the effect returned, for the hook record hk.
Cleanup(m, hk) ==
    LET kc == m.keyCallbacks
        kc1 == IF hk.key \in DOMAIN kc
               THEN LET set == kc[hk.key] \ {hk.callback}
                    IN  IF set = {}
                        THEN [k \in DOMAIN kc \ {hk.key} |-> kc[k]]
                        ELSE [kc EXCEPT ![hk.key] = set]
               ELSE kc
        m1 == [m EXCEPT !.keyCallbacks = kc1]
    IN  IF Cardinality(DOMAIN kc1) = 0 /\ hk.detach # NoDetach
        THEN Detach(m1, hk.detach)
        ELSE m1

SCSet(m) ==
    /\ keyCallbacks' = m.keyCallbacks
    /\ listenerAttached' = m.listenerAttached
    /\ windowListeners' = m.windowListeners

SCMount(h, key, callback) ==
    /\ app = "Shortcuts"
    /\ hooks[h].phase = "idle"
    /\ LET e == Effect(Manager, h, key, callback)
       IN  /\ SCSet(e.m)
           /\ hooks' = [hooks EXCEPT ![h] = e.hook]
    /\ last' = Event("mount", NoReq, Null, {}, {}, TRUE)
    /\ UNCHANGED <<app, net, seq, olVars, upVars, fnVars>>

SCUnmount(h) ==
    /\ app = "Shortcuts"
    /\ hooks[h].phase = "active"
    /\ SCSet(Cleanup(Manager, hooks[h]))
    /\ hooks' = [hooks EXCEPT ![h] = IdleHook]
    /\ last' = Event("unmount", NoReq, Null, {}, {}, TRUE)
    /\ UNCHANGED <<app, net, seq, olVars, upVars, fnVars>>

\* key or callback changed between renders: the cleanup, then the effect again
SCRerun(h, key, callback) ==
    /\ app = "Shortcuts"
    /\ hooks[h].phase = "active"
    /\ <<key, callback>> # <<hooks[h].key, hooks[h].callback>>
    /\ LET e == Effect(Cleanup(Manager, hooks[h]), h, key, callback)
       IN  /\ SCSet(e.m)
           /\ hooks' = [hooks EXCEPT ![h] = e.hook]
    /\ last' = Event("rerun", NoReq, Null, {}, {}, TRUE)
    /\ UNCHANGED <<app, net, seq, olVars, upVars, fnVars>>

\* A keydown event on window: every attached handler runs.
SCKeyDown(key, metaKey) ==
    /\ app = "Shortcuts"
    /\ LET runs == Listeners(windowListeners)
           hit == metaKey /\ key \in DOMAIN keyCallbacks
       IN  last' = Event("keydown", NoReq, [key |-> key, metaKey |-> metaKey, runs |-> runs],
                         IF hit /\ runs > 0 THEN keyCallbacks[key] ELSE {}, {}, TRUE)
    /\ UNCHANGED <<app, net, seq, olVars, upVars, scVars, fnVars>>

SCNext ==
    \/ \E h \in Hooks, key \in Keys, callback \in Callbacks : SCMount(h, key, callback)
    \/ \E h \in Hooks : SCUnmount(h)
    \/ \E h \in Hooks, key \in Keys, callback \in Callbacks : SCRerun(h, key, callback)
    \/ \E key \in Keys, metaKey \in BOOLEAN : SCKeyDown(key, metaKey)

(***************************************************************************)
(* The functions of the components that compute a value from their         *)
(* arguments alone.  A run makes one call of one of them.                  *)
(***************************************************************************)
Statuses == {"pending", "completed", "cancelled", "shipped", "PENDING", ""}

\* The if statements of getStatusColor, in their order.
StatusBranches ==
    << <<"pending", "orange">>, <<"completed", "green">>, <<"cancelled", "red">>,
       <<"pending", "yellow">> >>

\* Variant: the two "pending" branches in the other order.
StatusBranchesSwapped ==
    << <<"pending", "yellow">>, <<"completed", "green">>, <<"cancelled", "red">>,
       <<"pending", "orange">> >>

RECURSIVE FirstMatch(_, _, _)
FirstMatch(branches, i, status) ==
    IF i > Len(branches) THEN "gray"
    ELSE IF status = branches[i][1] THEN branches[i][2]
    ELSE FirstMatch(branches, i + 1, status)

getStatusColorSwapped(status) == FirstMatch(StatusBranchesSwapped, 1, status)

getStatusColor(status) == FirstMatch(StatusBranches, 1, status)

\* A JSON string as a JavaScript value.
Str(s) == [type |-> "string", value |-> s]

\* The truthiness of a value that is undefined, null or a string.
Truthy(v) == v.type = "string" /\ v.value # ""

FirstNames == {Undefined, Null, Str(""), Str("Ann")}
LastNames == {Undefined, Null, Str(""), Str("Lee")}

\* What userData may hold when getFullName is called.
UserDatas ==
    {Null} \cup {[type |-> "object", firstName |-> f, lastName |-> l] :
                    f \in FirstNames, l \in LastNames}

\* Variant: lastName is looked at first, and a user without one is "Unknown".
getFullNameLastFirst(userData) ==
    IF userData # Null
    THEN IF Truthy(userData.lastName)
         THEN IF Truthy(userData.firstName)
              THEN Str(userData.firstName.value \o " " \o userData.lastName.value)
              ELSE userData.lastName
         ELSE Str("Unknown")
    ELSE Str("Loading...")

\* getFullName(), over the userData of the closure
getFullName(userData) ==
    IF userData # Null
    THEN IF Truthy(userData.firstName)
         THEN IF Truthy(userData.lastName)
              THEN Str(userData.firstName.value \o " " \o userData.lastName.value)
              ELSE userData.firstName
         ELSE Str("Unknown")
    ELSE Str("Loading...")

\* Calendar dates, as year, month (1..12) and day.
IsLeap(y) == (y % 4 = 0 /\ y % 100 # 0) \/ y % 400 = 0

DaysIn(y, m) ==
    IF m = 2 THEN (IF IsLeap(y) THEN 29 ELSE 28)
    ELSE IF m \in {4, 6, 9, 11} THEN 30 ELSE 31

Dates ==
    {dt \in [y : {2000, 2023, 2024}, m : {1, 2, 3, 12}, d : {1, 28, 29, 31}] :
        dt.d <= DaysIn(dt.y, dt.m)}

\* The day before dt.
PrevDay(dt) ==
    IF dt.d > 1 THEN [dt EXCEPT !.d = @ - 1]
    ELSE IF dt.m > 1 THEN [y |-> dt.y, m |-> dt.m - 1, d |-> DaysIn(dt.y, dt.m - 1)]
    ELSE [y |-> dt.y - 1, m |-> 12, d |-> 31]

\* Where the browser's time zone lies: behind UTC, at UTC, ahead of UTC.
Zones == {"west", "utc", "east"}

\* new Date("YYYY-MM-DD") is midnight UTC of that day; getFullYear, getMonth
\* and getDate read it in local time, which is still the day before in a
\* zone behind UTC.
LocalDateOf(birthDate, zone) == IF zone = "west" THEN PrevDay(birthDate) ELSE birthDate

\* calculateAge(birthDate), with new Date() falling on the local day today.
calculateAge(birthDate, today, zone) ==
    LET birth == LocalDateOf(birthDate, zone)
        age == today.y - birth.y
        m == (today.m - 1) - (birth.m - 1)
    IN  IF m < 0 \/ (m = 0 /\ today.d < birth.d) THEN age - 1 ELSE age

NoCall == [fn |-> "", arg |-> "", result |-> ""]

FNGetStatusColor(status) ==
    /\ app = "Functions"
    /\ call = NoCall
    /\ call' = [fn |-> "getStatusColor", arg |-> status, result |-> getStatusColor(status)]
    /\ UNCHANGED <<app, net, seq, last, olVars, upVars, scVars>>

FNGetFullName(userData) ==
    /\ app = "Functions"
    /\ call = NoCall
    /\ call' = [fn |-> "getFullName", arg |-> userData, result |-> getFullName(userData)]
    /\ UNCHANGED <<app, net, seq, last, olVars, upVars, scVars>>

FNCalculateAge(birthDate, today, zone) ==
    /\ app = "Functions"
    /\ call = NoCall
    /\ call' = [fn |-> "calculateAge",
                arg |-> [birthDate |-> birthDate, today |-> today, zone |-> zone],
                result |-> calculateAge(birthDate, today, zone)]
    /\ UNCHANGED <<app, net, seq, last, olVars, upVars, scVars>>

FNNext ==
    \/ \E status \in Statuses : FNGetStatusColor(status)
    \/ \E userData \in UserDatas : FNGetFullName(userData)
    \/ \E birthDate \in Dates, today \in Dates, zone \in Zones :
          FNCalculateAge(birthDate, today, zone)

(***************************************************************************)
(* Specification.                                                          *)
(***************************************************************************)
InitState ==
    /\ net = {}
    /\ seq = 0
    /\ last = Event("init", NoReq, Null, <<>>, {}, FALSE)
    /\ orderList = OrderListInit
    /\ olPhase = "init"
    /\ olDirty = FALSE
    /\ olRendered = OrderListInit
    /\ olInterval = 0
    /\ olArrived = <<>>
    /\ userProfile = UserProfileInit
    /\ upPhase = "init"
    /\ upDirty = FALSE
    /\ upRendered = Snapshot(UserProfileInit, "u1")
    /\ upProps = "u1"
    /\ upMountId = "u1"
    /\ upAdded = 0
    /\ upDone = {}
    /\ keyCallbacks = <<>>
    /\ listenerAttached = FALSE
    /\ windowListeners = [h \in Hooks |-> 0]
    /\ hooks = [h \in Hooks |-> IdleHook]
    /\ call = NoCall

Init ==
    /\ app \in {"OrderList", "UserProfile", "Shortcuts", "Functions"}
    /\ InitState

Next == OLNext \/ UPNext \/ SCNext \/ FNNext

Spec == Init /\ [][Next]_vars

(***************************************************************************)
(* A mounted OrderList left alone: no user action, no unmount, and every   *)
(* request answered successfully.  React runs a pending render, the timer  *)
(* fires, and every request in flight is answered.                         *)
(***************************************************************************)
InitLongRun ==
    /\ app = "OrderListLongRun"
    /\ InitState

Answer(n) == \E r \in net, d \in OrderPayloads : r.seq = n /\ OLRespond(r, d)

NextLongRun ==
    \/ OLMount
    \/ OLRender
    \/ OLTick
    \/ \E n \in 1..MaxInFlight : Answer(n)

\* OrderList while it stays mounted, its requests are answered and the search
\* box is typed in: the runs in which a deleted order is followed.
InitDelete == app = "OrderListDelete" /\ InitState

NextDelete ==
    \/ OLMount
    \/ OLRender
    \/ OLSearch("a")
    \/ \E i \in 1..2 : OLHandleDelete(i)
    \/ \E r \in net, d \in OrderPayloads : OLRespond(r, d)

SpecDelete == InitDelete /\ [][NextDelete]_vars

SpecLongRun ==
    /\ InitLongRun
    /\ [][NextLongRun]_vars
    /\ WF_vars(OLMount)
    /\ WF_vars(OLRender)
    /\ WF_vars(OLTick)
    /\ \A n \in 1..MaxInFlight : WF_vars(Answer(n))

(***************************************************************************)
(* Properties.                                                             *)
(***************************************************************************)
IsGetOrders(r) == r.method = "GET" /\ r.path = <<"orders">>

OrderListOrigins == {"load", "poll", "search"}

\* C1: every committed render of a mounted OrderList, the first one and every
\* re-render, issues exactly one GET /orders from the load effect (and no
\* other request).
C1_LoadOnEveryCommit ==
    app = "OrderList" /\ last.type \in {"mount", "render"} =>
        /\ Cardinality(last.issued) = 1
        /\ \A r \in last.issued : r.origin = "load" /\ IsGetOrders(r) /\ r \in net

\* A re-render that shows orders a response brought.
C1_Witness ==
    app = "OrderList" /\ last.type = "render" /\ olRendered.orders # <<>>

\* C2 as stated: one interval from mount on, never cleared, and the response
\* to a poll replaces orders in every state, unmounted ones included.
C2_PollReplacesOrdersAlways ==
    app = "OrderList" =>
        /\ olPhase # "init" => olInterval = 1
        /\ last.type = "resp" /\ last.req.origin = "poll" =>
               orderList.orders = last.payload

\* C2, amended: the interval is started once at mount and never cleared, so a
\* tick stays possible in every later state, mounted or not, and issues one
\* GET /orders; the response to it is passed to setOrders, which replaces
\* orders while the component is mounted.
C2_PollNeverCleared ==
    app = "OrderList" =>
        /\ olPhase = "init" => olInterval = 0
        /\ olPhase # "init" => olInterval = 1
        /\ olPhase # "init" /\ seq < MaxRequests => ENABLED OLTick
        /\ last.type = "tick" =>
               /\ Cardinality(last.issued) = 1
               /\ \A r \in last.issued : r.origin = "poll" /\ IsGetOrders(r) /\ r \in net
        /\ last.type = "resp" /\ last.req.origin = "poll" =>
               /\ last.calls = <<"setOrders">>
               /\ last.mounted => orderList.orders = last.payload

\* A tick of the timer after the component has unmounted.
C2_Witness ==
    app = "OrderList" /\ olPhase = "unmounted" /\ last.type = "tick" /\ ~last.mounted

\* C3: a rejected fetch changes no state of OrderList or UserProfile and
\* schedules no render.
C3_RejectChangesNothing ==
    [][last'.type = "reject" =>
          /\ orderList' = orderList
          /\ userProfile' = userProfile
          /\ olDirty' = olDirty
          /\ upDirty' = upDirty]_vars

\* The load request of a mounted OrderList has been rejected while loading.
C3_Witness ==
    /\ app = "OrderList"
    /\ last.type = "reject" /\ last.mounted /\ last.req.origin = "load"
    /\ orderList.loading /\ orderList.error = Null

\* C4: error of UserProfile is the empty string in every reachable state, and
\* no render shows the error view.
C4_ErrorNeverSet ==
    /\ userProfile.error = ""
    /\ UPView(userProfile) # "error"
    /\ UPView(upRendered.state) # "error"

\* The DELETE of an item has been rejected.
C4_Witness ==
    /\ app = "UserProfile"
    /\ last.type = "reject" /\ last.mounted /\ last.req.origin = "deleteItem"

\* C5: a response that arrives after the component has unmounted still runs
\* its continuation, which calls the state setters.
C5_ContinuationAfterUnmount ==
    last.type = "resp" /\ ~last.mounted =>
        /\ last.req.origin = "load" =>
               last.calls = <<"setOrders", "setTotal", "setLoading">>
        /\ last.req.origin \in {"poll", "search"} => last.calls = <<"setOrders">>
        /\ last.req.origin = "user" =>
               last.calls = <<"setUserData", "setLoading", "setItems">>
        /\ last.req.origin = "deleteItem" => last.calls = <<"setItems">>

\* The response to a load request (issued while mounted) comes in after unmount.
C5_Witness ==
    /\ app = "OrderList" /\ olPhase = "unmounted"
    /\ last.type = "resp" /\ ~last.mounted /\ last.req.origin = "load"

\* C6: orders of a mounted OrderList is the payload of the order-list response
\* that came in last, whichever request it answers.
C6_LastArrivalWins ==
    app = "OrderList" /\ olPhase = "mounted" /\ olArrived # <<>> =>
        orderList.orders = olArrived[1].payload

\* The response to an older search came in after that to a newer search, for
\* another query and with another payload, and orders holds it.
C6_Witness ==
    /\ app = "OrderList" /\ olPhase = "mounted"
    /\ Len(olArrived) = 2
    /\ olArrived[1].req.origin = "search" /\ olArrived[2].req.origin = "search"
    /\ olArrived[1].req.seq < olArrived[2].req.seq
    /\ olArrived[1].req.path # olArrived[2].req.path
    /\ olArrived[1].payload # olArrived[2].payload
    /\ orderList.orders = olArrived[1].payload

\* C7: a UserProfile instance issues GET /users/{id} once, at mount, with the
\* id it had then; a change of props.id issues nothing, and userData is the
\* user of the first id.
C7_UserFetchedOnce ==
    app = "UserProfile" =>
        /\ \A r \in net \cup last.issued :
               r.origin = "user" =>
                   r.seq = 1 /\ r.method = "GET" /\ r.path = <<"users", upMountId>>
        /\ last.type = "mount" =>
               Cardinality(last.issued) = 1 /\ \A r \in last.issued : r.origin = "user"
        /\ last.type \in {"render", "props"} => last.issued = {}
        /\ userProfile.userData # Null => userProfile.userData.id = upMountId

\* A re-render with another props.id than the one at mount, the user shown.
C7_Witness ==
    /\ app = "UserProfile" /\ upPhase = "mounted"
    /\ last.type = "render" /\ upRendered.props # upMountId
    /\ userProfile.userData # Null

Allowed(r) ==
    \/ r.method = "GET" /\ r.path = <<"orders">>
    \/ r.method = "DELETE" /\ Len(r.path) = 2 /\ r.path[1] = "orders"
    \/ r.method = "GET" /\ Len(r.path) = 3 /\ r.path[1] = "orders" /\ r.path[2] = "search?q="
    \/ r.method = "GET" /\ Len(r.path) = 2 /\ r.path[1] = "users"
    \/ r.method = "DELETE" /\ Len(r.path) = 2 /\ r.path[1] = "items"

\* C8: every request either component issues is GET /orders,
\* DELETE /orders/{id}, GET /orders/search?q=..., GET /users/{id} or
\* DELETE /items/{id}.
C8_OnlyKnownEndpoints ==
    \A r \in net \cup last.issued : Allowed(r)

\* A DELETE /orders/{id} is in flight.
C8_Witness ==
    \E r \in net : r.method = "DELETE" /\ r.path[1] = "orders"

\* C9: a response applied to a mounted component is stored as received:
\* userData is the payload and items its items field, absent or not; orders
\* is the payload of a GET /orders or search response.
C9_StoredAsReceived ==
    last.type = "resp" /\ last.mounted =>
        /\ last.req.origin = "user" =>
               /\ userProfile.userData = last.payload
               /\ userProfile.items = last.payload.items
        /\ last.req.origin \in OrderListOrigins => orderList.orders = last.payload

\* A user without an items field has been stored.
C9_Witness ==
    /\ app = "UserProfile"
    /\ last.type = "resp" /\ last.mounted /\ last.req.origin = "user"
    /\ last.payload.items = Undefined /\ userProfile.items = Undefined

\* C10: at most one keydown handler of the manager is on window at any time.
C10_AtMostOneListener ==
    app = "Shortcuts" => Listeners(windowListeners) <= 1

\* Every hook is mounted and they share one handler.
C10_Witness ==
    /\ app = "Shortcuts"
    /\ \A h \in Hooks : hooks[h].phase = "active"
    /\ Listeners(windowListeners) = 1

\* C11: whenever keyCallbacks is empty the keydown handler has been removed
\* from window and listenerAttached is false.
C11_ListenerCleanedUp ==
    app = "Shortcuts" /\ DOMAIN keyCallbacks = {} =>
        Listeners(windowListeners) = 0 /\ ~listenerAttached

\* C12: getStatusColor maps "pending" to "orange", "completed" to "green",
\* "cancelled" to "red" and every other status to "gray"; "yellow" is
\* returned for no status.
C12_StatusColor ==
    call.fn = "getStatusColor" =>
        /\ call.arg = "pending" => call.result = "orange"
        /\ call.arg = "completed" => call.result = "green"
        /\ call.arg = "cancelled" => call.result = "red"
        /\ call.arg \notin {"pending", "completed", "cancelled"} => call.result = "gray"
        /\ call.result # "yellow"

\* getStatusColor("pending") has returned.
C12_Witness ==
    call.fn = "getStatusColor" /\ call.arg = "pending" /\ call.result = "orange"

UserRequestOut == \E r \in net : r.origin = "user"

\* The GET /users/{id} of the mount has been rejected: it is settled and no
\* user has been stored.
UserRequestFailed ==
    /\ app = "UserProfile" /\ upPhase # "init"
    /\ ~UserRequestOut /\ userProfile.userData = Null

\* C13: while the mount-time GET /users/{id} is outstanding, and in every
\* state after it has been rejected, loading is true and every render shows
\* the loading indicator only.
C13_LoadingStaysTrue ==
    /\ [](app = "UserProfile" /\ upPhase # "init"
             /\ (UserRequestOut \/ UserRequestFailed) =>
               /\ userProfile.loading
               /\ last.type = "render" => UPView(upRendered.state) = "loading")
    /\ [][UserRequestFailed => UserRequestFailed' /\ userProfile'.loading]_vars

\* A render of the mounted component after the request has been rejected.
C13_Witness ==
    /\ UserRequestFailed /\ upPhase = "mounted"
    /\ last.type = "render" /\ UPView(upRendered.state) = "loading"

\* C14: loading is true once the mount effect has run and becomes false only
\* in the update that applies the user response, together with userData and
\* items; a render while loading shows the loading indicator only, and once
\* the response is applied the profile of the fetched user is rendered.
C14_LoadingThenProfile ==
    app = "UserProfile" /\ upPhase # "init" =>
        /\ last.type = "mount" => userProfile.loading
        /\ ~userProfile.loading => userProfile.userData # Null
        /\ last.type = "resp" /\ last.req.origin = "user" /\ last.mounted =>
               /\ ~userProfile.loading
               /\ userProfile.userData = last.payload
               /\ userProfile.items = last.payload.items
        /\ last.type = "render" /\ upRendered.state.loading =>
               UPView(upRendered.state) = "loading"
        /\ last.type = "render" /\ upRendered.state.userData # Null =>
               /\ UPView(upRendered.state) = "profile"
               /\ upRendered.state.userData.id = upMountId
        /\ upPhase # "crashed"

\* C15: left alone, with every request answered successfully, a mounted
\* OrderList ends up for good in states where loading is false and no
\* request of the load effect is outstanding.
C15_Quiesces ==
    <>[](/\ olPhase = "mounted"
         /\ ~orderList.loading
         /\ ~\E r \in net : r.origin = "load")

ItemIds(elems) == {elems[i].id : i \in 1..Len(elems)}

\* x and y are resolved DELETEs, each started before the other had resolved.
Overlapped(x, y) == x.req.seq <= y.at /\ y.req.seq <= x.at

\* C16: once two handleDelete calls for different items, both started before
\* either DELETE resolved, have both resolved, items holds neither item.
C16_BothItemsRemoved ==
    app = "UserProfile" /\ upPhase = "mounted" /\ userProfile.items.type = "array" =>
        \A x, y \in upDone :
            x.req.cap.itemId # y.req.cap.itemId /\ Overlapped(x, y) =>
                {x.req.cap.itemId, y.req.cap.itemId}
                    \cap ItemIds(userProfile.items.elems) = {}

\* C17: handleDelete(itemId) calls no setter when it is started; when its
\* DELETE has resolved, whatever the status, items is the list the handler
\* was created with, less the elements whose id is itemId, in their order.
C17_DeleteFiltersCreationList ==
    app = "UserProfile" =>
        /\ last.type = "handleDelete" => last.calls = <<>>
        /\ last.type = "resp" /\ last.req.origin = "deleteItem" /\ last.mounted =>
               /\ userProfile.items.type = "array"
               /\ userProfile.items.elems =
                      SelectSeq(last.req.cap.created,
                                LAMBDA item : item.id # last.req.cap.itemId)

\* C18: a click on the add button appends one new item to items and causes a
\* re-render, which shows the new item in the list and in the count.
C18_AddItemRerenders ==
    app = "UserProfile" /\ last.type = "addItem" =>
        /\ userProfile.items.type = "array"
        /\ Len(userProfile.items.elems) = Len(upRendered.shown) + 1
        /\ upDirty

\* The sum of price * quantity over a list of orders.
RECURSIVE SumOfOrders(_)
SumOfOrders(os) ==
    IF os = <<>> THEN 0
    ELSE Head(os).price * Head(os).quantity + SumOfOrders(Tail(os))

\* C19: whenever loading is false, total is the sum of price * quantity over
\* the orders held in state, whatever responses produced that state.
C19_TotalMatchesOrders ==
    (app = "OrderList" /\ ~orderList.loading)
        => orderList.total = SumOfOrders(orderList.orders)

OrderIds(os) == {os[i].id : i \in 1..Len(os)}

\* The step is a click on the rendered order id: one DELETE /orders/{id} goes
\* out and is still in flight when the handler returns, the trigger counter
\* goes up by one, and the rest of the state and the rendered list stay.
DeleteStep(id) ==
    /\ Cardinality(last'.issued) = 1
    /\ \A r \in last'.issued : r.method = "DELETE" /\ r.path = <<"orders", id>>
    /\ net' = net \cup last'.issued
    /\ last'.issued \cap net = {}
    /\ orderList' = [orderList EXCEPT !.trigger = @ + 1]
    /\ olRendered' = olRendered

HandleDeleteFrame ==
    last'.type = "handleDelete" => \E id \in OrderIds(olRendered.orders) : DeleteStep(id)

\* The orders that leave the rendered list in this step.
Leaving == OrderIds(olRendered.orders) \ OrderIds(olRendered'.orders)

\* The response applied last came from one of these origins and omits id.
OmittedBy(origins, id) ==
    /\ olArrived # <<>>
    /\ olArrived[1].req.method = "GET"
    /\ olArrived[1].req.origin \in origins
    /\ id \notin OrderIds(olArrived[1].payload)

\* The orders whose DELETE has gone out and is not settled yet.
DeleteInFlight == {r.path[2] : r \in {x \in net : x.origin = "delete"}}

C21_RegisteredAreInvoked ==
    app = "Shortcuts" =>
        /\ (\E k \in DOMAIN keyCallbacks : keyCallbacks[k] # {})
               => Listeners(windowListeners) >= 1
        /\ (/\ last.type = "keydown"
            /\ last.payload.metaKey
            /\ last.payload.key \in DOMAIN keyCallbacks)
               => /\ last.payload.runs >= 1
                  /\ last.calls = keyCallbacks[last.payload.key]
                  /\ last.calls # {}

\* The hook that attached the handler is gone, a hook that attached nothing
\* is still registered, and a meta keydown has invoked its callback.
C21_Witness ==
    /\ app = "Shortcuts"
    /\ last.type = "keydown"
    /\ last.payload.metaKey
    /\ \E h \in Hooks :
           /\ hooks[h].phase = "active"
           /\ hooks[h].detach = NoDetach
           /\ hooks[h].key = last.payload.key
           /\ hooks[h].callback \in last.calls
    /\ \E h \in Hooks : hooks[h].phase = "idle" /\ windowListeners[h] = 1

\* The profile body is on screen: the bio element exists.
BioShown ==
    /\ upPhase = "mounted"
    /\ UPView(upRendered.state) = "profile"
    /\ upRendered.state.userData # Null
    /\ ~UPRenderThrows(upRendered.state)

\* C22: order.memo and userData.bio reach the DOM as the raw HTML the
\* response carried, script elements included: nothing sanitizes or
\* transforms them on the way.
C22_RawHtmlInDom ==
    /\ app = "OrderList" =>
           \A i \in 1..Len(olRendered.orders) :
              \E d \in OrderPayloads : \E j \in 1..Len(d) :
                 /\ d[j].id = olRendered.orders[i].id
                 /\ OLMemoDom(olRendered)[i] = d[j].memo
    /\ (app = "UserProfile" /\ BioShown) =>
           UPBioDom(upRendered.state) = BioOf(upRendered.state.userData.id)

\* An order whose memo holds a script element is on screen, script and all.
C22_Witness ==
    /\ app = "OrderList"
    /\ olPhase = "mounted"
    /\ \E i \in 1..Len(olRendered.orders) :
           /\ olRendered.orders[i].id = "o2"
           /\ OLMemoDom(olRendered)[i] = ScriptHtml

\* A name that is present and not the empty string.
NonEmptyName(v) == v \notin {Undefined, Null, Str("")}

\* C23: getFullName returns "Loading..." when userData is null, "Unknown"
\* when userData has no non-empty firstName (whatever its lastName),
\* firstName alone when lastName is missing or empty, and
\* firstName + " " + lastName otherwise.
C23_FullName ==
    call.fn = "getFullName" =>
        LET u == call.arg
        IN  /\ u = Null => call.result = Str("Loading...")
            /\ u # Null =>
                  /\ ~NonEmptyName(u.firstName) => call.result = Str("Unknown")
                  /\ (NonEmptyName(u.firstName) /\ ~NonEmptyName(u.lastName))
                        => call.result = u.firstName
                  /\ (NonEmptyName(u.firstName) /\ NonEmptyName(u.lastName))
                        => call.result = Str(u.firstName.value \o " " \o u.lastName.value)

\* getFullName has been called on a user with a lastName and no firstName.
C23_Witness ==
    /\ call.fn = "getFullName"
    /\ call.arg # Null
    /\ call.arg.firstName = Str("")
    /\ call.arg.lastName = Str("Lee")
    /\ call.result = Str("Unknown")

\* (month, day) of a comes before (month, day) of b in the year.
EarlierInYear(a, b) == a.m < b.m \/ (a.m = b.m /\ a.d < b.d)

NotAfter(a, b) == a.y < b.y \/ (a.y = b.y /\ ~EarlierInYear(b, a))

CompleteYears(birthDate, today) ==
    (today.y - birthDate.y) - (IF EarlierInYear(today, birthDate) THEN 1 ELSE 0)

\* C24: calculateAge returns the number of complete years between birthDate
\* and today, the difference of the calendar years reduced by one exactly
\* when today's (month, day) is earlier than the birth (month, day), and the
\* result is non-negative whenever birthDate is not after today.
C24_CompleteYears ==
    (call.fn = "calculateAge" /\ NotAfter(call.arg.birthDate, call.arg.today)) =>
        /\ call.result = CompleteYears(call.arg.birthDate, call.arg.today)
        /\ call.result >= 0

====
